---- MODULE Spec2Model ----
(***************************************************************************)
(* The two-stage ingestion pipeline of the repository:                     *)
(*   - the extraction stage, src/etl/app.py (main, scan_once,              *)
(*     process_file), which moves inbox files to the archive, writes a     *)
(*     sidecar JSON beside them and copies it to the staging directory;    *)
(*   - the sync stage, src/embedder/app.py (main_loop, scan_staging,       *)
(*     process_staging_file, ingest_json, scan_active_files), which        *)
(*     upserts staged sidecars and live documents into the vector index.   *)
(* The two stages are separate processes that interleave at the level of   *)
(* single file-system or network operations.                               *)
(***************************************************************************)
EXTENDS Naturals, Sequences, FiniteSets, Bags, TLC

(***************************************************************************)
(* Bounds of the model.                                                    *)
(***************************************************************************)
\* How many files the environment drops into the inbox in one run.
MaxDrops == 2
\* How many times the stages are terminated (and restarted) in one run.
MaxCrashes == 1

(***************************************************************************)
(* File names and paths.  A file name is the sequence of its dot-separated *)
(* parts: "foo.PDF" is <<"foo", "PDF">>, ".keep" is <<"", "keep">>.  A     *)
(* relative directory is the sequence of its segments.                     *)
(***************************************************************************)
\* str.lower() on the extensions that occur.
Lower(s) ==
    CASE s = "PDF" -> "pdf"
      [] s = "EML" -> "eml"
      [] s = "TXT" -> "txt"
      [] OTHER -> s

\* os.path.splitext: the extension is the last part, unless the name has no
\* dot after its leading dots.
HasExt(name) == Len(name) >= 2 /\ \E i \in 1..(Len(name) - 1) : name[i] # ""
SplitextStem(name) == IF HasExt(name) THEN SubSeq(name, 1, Len(name) - 1) ELSE name
SplitextExt(name) == IF HasExt(name) THEN name[Len(name)] ELSE ""

\* name.startswith(".")
StartsWithDot(name) == Len(name) >= 2 /\ name[1] = ""

\* os.path.join(root, rel_dir, filename)
os_path_join(root, rel_dir, name) == [root |-> root, dir |-> rel_dir, name |-> name]

TEXT_EXTS == {"txt", "md", "rtf"}
IMG_EXTS == {"png", "jpg", "jpeg", "tif", "tiff", "bmp", "gif", "webp"}
PDF_EXTS == {"pdf"}
EMAIL_EXTS == {"eml"}

(***************************************************************************)
(* The files the environment may drop into the inbox.  Two of them share   *)
(* the stem "foo" in different subdirectories, one has no extractable      *)
(* text, one is hidden.                                                    *)
(***************************************************************************)
Inputs ==
    { [dir |-> <<"receipts">>, name |-> <<"foo", "PDF">>, bytes |-> "scan-of-receipt"],
      [dir |-> <<"mail">>,     name |-> <<"foo", "eml">>, bytes |-> "mail-hello"],
      [dir |-> <<"receipts">>, name |-> <<"bar", "txt">>, bytes |-> "blank"],
      [dir |-> <<"mail">>,     name |-> <<"", "keep">>,   bytes |-> "plain-note"] }

InboxDirs == {i.dir : i \in Inputs}
InboxKey(i) == <<i.dir, i.name>>

\* What the format-specific extractors return for the bytes that occur
\* (OCR, e-mail body, plain read): a pure function of the bytes.
TextOfBytes(bytes) ==
    CASE bytes = "scan-of-receipt" -> "Receipt 42"
      [] bytes = "mail-hello"      -> "Hello"
      [] bytes = "plain-note"      -> "a note"
      [] OTHER                     -> ""

\* extract_text: the strategy is chosen by the lower-cased extension; each
\* one, the fallback included, returns the text of the file's bytes.
extract_text(bytes, ext) ==
    CASE ext \in PDF_EXTS   -> TextOfBytes(bytes)
      [] ext \in IMG_EXTS   -> TextOfBytes(bytes)
      [] ext \in EMAIL_EXTS -> TextOfBytes(bytes)
      [] ext \in TEXT_EXTS  -> TextOfBytes(bytes)
      [] OTHER              -> TextOfBytes(bytes)

(***************************************************************************)
(* Checksums and identifiers.  sha256 and uuid5 are modelled as injective  *)
(* constructors.                                                           *)
(***************************************************************************)
file_checksum(bytes) == [sha256 |-> bytes]
NoChecksum == [sha256 |-> ""]

\* str(uuid.uuid5(uuid.NAMESPACE_URL, name))
Uuid5(name) == [form |-> "uuid", of |-> name]
\* A string that is not UUID-shaped.
PlainStr(name) == [form |-> "plain", of |-> name]

\* The string f"{archive_path}|{checksum}", and the string str(path).
PathAndSum(path, sum) == [path |-> path, sep |-> "|", sum |-> sum]
PathOnly(path) == [path |-> path, sep |-> "", sum |-> NoChecksum]

\* normalize_uuid: a UUID-shaped string is kept, anything else is hashed.
normalize_uuid(raw) == IF raw.form = "uuid" THEN raw ELSE Uuid5(raw.of)

(***************************************************************************)
(* Sidecar records and file contents.                                      *)
(***************************************************************************)
NoPath == os_path_join("", <<>>, <<>>)
NoDoc ==
    [id |-> PlainStr(PathOnly(NoPath)), source_path |-> NoPath, archived_path |-> NoPath,
     item_type |-> "", original_filename |-> <<>>, checksum |-> NoChecksum, text |-> ""]

\* item_type = rel_dir.split(os.sep)[0] if rel_dir else "unknown"
ItemType(rel_dir) == IF rel_dir = <<>> THEN "unknown" ELSE rel_dir[1]

build_sidecar(src_path, archive_path, item_type, text, bytes) ==
    LET checksum == file_checksum(bytes)
    IN  [id |-> Uuid5(PathAndSum(archive_path, checksum)),
         source_path |-> src_path,
         archived_path |-> archive_path,
         item_type |-> item_type,
         original_filename |-> src_path.name,
         checksum |-> checksum,
         text |-> text]

\* File contents: the original bytes, a complete sidecar JSON, or a JSON
\* file whose write has begun and not finished (it does not parse).
RawFile(bytes) == [kind |-> "raw", bytes |-> bytes, doc |-> NoDoc]
JsonFile(doc) == [kind |-> "json", bytes |-> "", doc |-> doc]
PartialJson(doc) == [kind |-> "partial", bytes |-> "", doc |-> doc]

\* The name and the archive key of the sidecar of a file.
SidecarName(name) == SplitextStem(name) \o <<"json">>

EmptyDir == [x \in {} |-> NoDoc]
Without(f, k) == [x \in (DOMAIN f) \ {k} |-> f[x]]
With(f, k, v) == [x \in (DOMAIN f) \cup {k} |-> IF x = k THEN v ELSE f[x]]

VARIABLES
    inbox,      \* INBOX_DIR: <<rel_dir, name>> -> file contents
    archive,    \* ARCHIVE_DIR: <<rel_dir, name>> -> file contents
    staging,    \* STAGING_DIR: name -> file contents
    dropped,    \* the inputs the environment has dropped so far
    crashes,    \* how many terminations have happened
    redo,       \* the identifier upserted by a step that was terminated before its unlink
    etlPc,      \* where the extraction stage is
    etlDirs,    \* scan_once: directories os.walk has still to visit
    etlFiles,   \* scan_once: names of the current directory still to process
    etlDir,     \* scan_once: the directory being visited
    etlCur,     \* process_file: the name being processed
    etlSidecar, \* process_file: the sidecar built
    etlExc,     \* scan_once: the step whose exception was caught
    index,      \* the vector index: a bag of objects
    embPc,      \* where the sync stage is
    embFiles,   \* scan_staging: staging names still to process
    embCur,     \* process_staging_file: the staging name being processed
    embData,    \* ingest_json: the sidecar loaded
    embUpserted,\* ingest_json: the identifier upserted by this call
    embExc,     \* scan_staging, scan_active_files: the step that raised
    active,     \* ACTIVE_DIR: path -> [mtime, text]
    state,      \* main_loop: the watermark map, path -> mtime
    actFiles,   \* scan_active_files: paths rglob has still to yield
    actCur,     \* scan_active_files: the path being processed
    actMtime,   \* scan_active_files: the modification time observed
    actText,    \* scan_active_files: the text read
    lastObs,    \* per path, the last completed observation under this map
    scanUpserts,\* per path upserted in the current scan: how often, and its watermark before
    tmp,        \* the inbox files for which an output file of ocr_pdf exists
    storeClass, \* the vector store: the collection CLASS_NAME, or NoClass
    schPc,      \* where ensure_schema is
    schExisting,\* ensure_schema: existing_props
    schI,       \* ensure_schema: position in desired_properties
    schAdds,    \* the add-property requests sent, in order
    schQuery,   \* how the schema query was answered
    schPre,     \* the collection as it was when ensure_schema was entered
    rxPc,       \* where the reindex entry point is
    rxFiles,    \* reindex_archive: archive paths rglob has still to yield
    rxCur,      \* reindex_archive: the path being ingested
    rxData,     \* ingest_json: the sidecar loaded
    rxRuns,     \* how many reindex runs have been started
    rxClean,    \* no ingestion of the reindex runs so far has raised
    rxSnapshot, \* the archive as the first reindex run listed it
    rxIndex1    \* the index as the first reindex run left it

fsVars == <<inbox, archive, staging>>
envVars == <<dropped, crashes, redo>>
etlVars == <<etlPc, etlDirs, etlFiles, etlDir, etlCur, etlSidecar, etlExc>>
embVars == <<embPc, embFiles, embCur, embData, embUpserted, embExc>>
syncVars == <<active, state, actFiles, actCur, actMtime, actText, lastObs, scanUpserts>>
schemaVars == <<storeClass, schPc, schExisting, schI, schAdds, schQuery, schPre>>
rxVars == <<rxPc, rxFiles, rxCur, rxData, rxRuns, rxClean, rxSnapshot, rxIndex1>>
auxVars == <<schemaVars, rxVars>>
vars == <<inbox, archive, staging, dropped, crashes, redo,
          etlPc, etlDirs, etlFiles, etlDir, etlCur, etlSidecar, etlExc,
          index, embPc, embFiles, embCur, embData, embUpserted, embExc,
          active, state, actFiles, actCur, actMtime, actText, lastObs, scanUpserts,
          tmp, schemaVars, rxVars>>

NoName == <<>>
NoId == PlainStr(PathOnly(NoPath))

(***************************************************************************)
(* The vector index.  PUT /v1/objects/{id} replaces the object stored      *)
(* under the identifier, or creates it.                                    *)
(***************************************************************************)
IndexObject(obj_id, props) ==
    [id |-> obj_id, text |-> props.text, item_type |-> props.item_type,
     source_path |-> props.source_path, archived_path |-> props.archived_path,
     checksum |-> props.checksum]

\* A store that appends on every write instead of replacing by identifier.
upsert_object_append(idx, obj_id, props) ==
    idx (+) SetToBag({IndexObject(obj_id, props)})

upsert_object(idx, obj_id, props) ==
    LET new == IndexObject(obj_id, props)
        keep == {o \in BagToSet(idx) : o.id # obj_id}
    IN  [o \in keep \cup {new} |-> IF o = new THEN 1 ELSE idx[o]]

\* How many objects the index holds under an identifier.
EntriesOf(idx, obj_id) ==
    LET S == {o \in BagToSet(idx) : o.id = obj_id}
        RECURSIVE Sum(_)
        Sum(T) == IF T = {} THEN 0
                  ELSE LET o == CHOOSE x \in T : TRUE IN idx[o] + Sum(T \ {o})
    IN  Sum(S)

IndexIds(idx) == {o.id : o \in BagToSet(idx)}

\* The vector store holds no collection named CLASS_NAME.
NoClass == [exists |-> FALSE, vectorizer |-> "", properties |-> EmptyDir]

(***************************************************************************)
(* Initial state: both stages have just been started on empty directories  *)
(* and an empty index.                                                     *)
(***************************************************************************)
Init ==
    /\ inbox = EmptyDir
    /\ archive = EmptyDir
    /\ staging = EmptyDir
    /\ dropped = {}
    /\ crashes = 0
    /\ redo = NoId
    /\ etlPc = "poll"
    /\ etlDirs = {}
    /\ etlFiles = {}
    /\ etlDir = <<>>
    /\ etlCur = NoName
    /\ etlSidecar = NoDoc
    /\ etlExc = "none"
    /\ index = EmptyBag
    /\ embPc = "start"
    /\ embFiles = {}
    /\ embCur = NoName
    /\ embData = NoDoc
    /\ embUpserted = NoId
    /\ embExc = "none"
    /\ active = EmptyDir
    /\ state = EmptyDir
    /\ actFiles = {}
    /\ actCur = NoPath
    /\ actMtime = 0
    /\ actText = ""
    /\ lastObs = EmptyDir
    /\ scanUpserts = EmptyDir
    /\ tmp = {}
    /\ storeClass = NoClass
    /\ schPc = "idle"
    /\ schExisting = {}
    /\ schI = 1
    /\ schAdds = <<>>
    /\ schQuery = "none"
    /\ schPre = NoClass
    /\ rxPc = "idle"
    /\ rxFiles = {}
    /\ rxCur = NoName
    /\ rxData = NoDoc
    /\ rxRuns = 0
    /\ rxClean = TRUE
    /\ rxSnapshot = EmptyDir
    /\ rxIndex1 = EmptyBag

(***************************************************************************)
(* The environment: a user drops a file into the inbox.                    *)
(***************************************************************************)
Drop(i) ==
    /\ i \notin dropped
    /\ Cardinality(dropped) < MaxDrops
    /\ inbox' = With(inbox, InboxKey(i), RawFile(i.bytes))
    /\ dropped' = dropped \cup {i}
    /\ UNCHANGED <<archive, staging, crashes, redo, etlVars, index, embVars, syncVars>>
    /\ UNCHANGED <<tmp, auxVars>>

(***************************************************************************)
(* The extraction stage: main, scan_once and process_file.                 *)
(***************************************************************************)
\* The output file of ocr_pdf (NamedTemporaryFile, delete=False) of a call of
\* process_file on an inbox file: still owned by the call ("open"), or left
\* behind by a call that raised or was terminated.
OcrOutput(dir, name, why) == [of |-> <<dir, name>>, why |-> why]
IsPdf(name) == Lower(SplitextExt(name)) \in PDF_EXTS
\* The call ends without reaching os.remove(meta["ocr_output"]).
Abandon(files, dir, name, why) ==
    IF OcrOutput(dir, name, "open") \in files
    THEN (files \ {OcrOutput(dir, name, "open")}) \cup {OcrOutput(dir, name, why)}
    ELSE files
\* if meta.get("ocr_output") and os.path.exists(...): os.remove(...)
RemoveOcrOutput(files, dir, name) == files \ {OcrOutput(dir, name, "open")}

\* The steps of process_file at which an exception can be raised, by the
\* place the stage is at.
FailingSteps(pc) ==
    CASE pc = "file" -> {"extract", "checksum"}
      [] pc \in {"built", "moving"} -> {"move"}
      [] pc \in {"moved", "writing"} -> {"sidecar"}
      [] pc \in {"written", "copying"} -> {"copy"}
      [] OTHER -> {}

InProcessFile(pc) == FailingSteps(pc) # {}

\* archived_path = os.path.join(archive_subdir, filename)
ArchiveKey(rel_dir, name) == <<rel_dir, name>>
\* sidecar_archive_path = os.path.join(archive_subdir, sidecar_name)
SidecarArchiveKey(rel_dir, name) == <<rel_dir, SidecarName(name)>>
\* sidecar_staging_path = os.path.join(STAGING_DIR, sidecar_name)
SidecarStagingKey(rel_dir, name) == SidecarName(name)

\* scan_once is entered: os.walk starts on the inbox.
scan_once_begin ==
    /\ etlPc = "poll"
    /\ etlPc' = "walk"
    /\ etlDirs' = InboxDirs
    /\ etlFiles' = {}
    /\ UNCHANGED <<fsVars, envVars, etlDir, etlCur, etlSidecar, etlExc, index, embVars, syncVars>>
    /\ UNCHANGED <<tmp, auxVars>>

\* os.walk yields the next directory with the names it holds now.
scan_once_walk(d) ==
    /\ etlPc = "walk"
    /\ etlFiles = {}
    /\ d \in etlDirs
    /\ etlDirs' = etlDirs \ {d}
    /\ etlDir' = d
    /\ etlFiles' = {k[2] : k \in {x \in DOMAIN inbox : x[1] = d}}
    /\ UNCHANGED <<fsVars, envVars, etlPc, etlCur, etlSidecar, etlExc, index, embVars, syncVars>>
    /\ UNCHANGED <<tmp, auxVars>>

\* for name in files: hidden names are skipped, the others are processed.
scan_once_name(n) ==
    /\ etlPc = "walk"
    /\ n \in etlFiles
    /\ etlFiles' = etlFiles \ {n}
    /\ IF StartsWithDot(n)
       THEN UNCHANGED <<etlPc, etlCur>>
       ELSE etlPc' = "file" /\ etlCur' = n
    /\ UNCHANGED <<fsVars, envVars, etlDirs, etlDir, etlSidecar, etlExc, index, embVars, syncVars>>
    /\ UNCHANGED <<tmp, auxVars>>

\* os.walk is exhausted: scan_once returns and main sleeps.
scan_once_end ==
    /\ etlPc = "walk"
    /\ etlFiles = {}
    /\ etlDirs = {}
    /\ etlPc' = "poll"
    /\ UNCHANGED <<fsVars, envVars, etlDirs, etlFiles, etlDir, etlCur, etlSidecar, etlExc,
                   index, embVars, syncVars>>
    /\ UNCHANGED <<tmp, auxVars>>

\* extract_text and build_sidecar: both read the file at its inbox path.
process_file_extract ==
    /\ etlPc = "file"
    /\ <<etlDir, etlCur>> \in DOMAIN inbox
    /\ LET bytes == inbox[<<etlDir, etlCur>>].bytes
           ext == Lower(SplitextExt(etlCur))
           text == extract_text(bytes, ext)
       IN  etlSidecar' = build_sidecar(os_path_join("inbox", etlDir, etlCur),
                                       os_path_join("archive", etlDir, etlCur),
                                       ItemType(etlDir), text, bytes)
    /\ etlPc' = "built"
    /\ tmp' = IF IsPdf(etlCur) THEN tmp \cup {OcrOutput(etlDir, etlCur, "open")} ELSE tmp
    /\ UNCHANGED <<fsVars, envVars, etlDirs, etlFiles, etlDir, etlCur, etlExc, index, embVars, syncVars>>
    /\ UNCHANGED auxVars

\* shutil.move when inbox and archive are on one file system: os.rename.
\* The removal of the OCR output that follows the move is part of the step.
process_file_move_rename ==
    /\ etlPc = "built"
    /\ <<etlDir, etlCur>> \in DOMAIN inbox
    /\ archive' = With(archive, ArchiveKey(etlDir, etlCur), inbox[<<etlDir, etlCur>>])
    /\ inbox' = Without(inbox, <<etlDir, etlCur>>)
    /\ etlPc' = "moved"
    /\ UNCHANGED <<staging, envVars, etlDirs, etlFiles, etlDir, etlCur, etlSidecar, etlExc,
                   index, embVars, syncVars>>
    /\ tmp' = RemoveOcrOutput(tmp, etlDir, etlCur)
    /\ UNCHANGED auxVars

\* A move that unlinks the inbox file before the archive copy is written.
process_file_move_unlink_first ==
    /\ etlPc = "built"
    /\ <<etlDir, etlCur>> \in DOMAIN inbox
    /\ inbox' = Without(inbox, <<etlDir, etlCur>>)
    /\ etlPc' = "moving"
    /\ UNCHANGED <<archive, staging, envVars, etlDirs, etlFiles, etlDir, etlCur, etlSidecar,
                   etlExc, index, embVars, syncVars>>
    /\ UNCHANGED <<tmp, auxVars>>

\* shutil.move across file systems: copy2 to the archive, then unlink.
process_file_move_copy ==
    /\ etlPc = "built"
    /\ <<etlDir, etlCur>> \in DOMAIN inbox
    /\ archive' = With(archive, ArchiveKey(etlDir, etlCur), inbox[<<etlDir, etlCur>>])
    /\ etlPc' = "moving"
    /\ UNCHANGED <<inbox, staging, envVars, etlDirs, etlFiles, etlDir, etlCur, etlSidecar,
                   etlExc, index, embVars, syncVars>>
    /\ UNCHANGED <<tmp, auxVars>>

process_file_move_unlink ==
    /\ etlPc = "moving"
    /\ inbox' = Without(inbox, <<etlDir, etlCur>>)
    /\ etlPc' = "moved"
    /\ UNCHANGED <<archive, staging, envVars, etlDirs, etlFiles, etlDir, etlCur, etlSidecar,
                   etlExc, index, embVars, syncVars>>
    /\ tmp' = RemoveOcrOutput(tmp, etlDir, etlCur)
    /\ UNCHANGED auxVars

\* A process_file that opens the staging sidecar before the archive sidecar.
process_file_open_staging_first ==
    /\ etlPc = "moved"
    /\ staging' = With(staging, SidecarStagingKey(etlDir, etlCur), PartialJson(etlSidecar))
    /\ etlPc' = "writing"
    /\ UNCHANGED <<inbox, archive, envVars, etlDirs, etlFiles, etlDir, etlCur, etlSidecar,
                   etlExc, index, embVars, syncVars>>
    /\ UNCHANGED <<tmp, auxVars>>

\* open(sidecar_archive_path, "w") truncates the file; json.dump fills it.
process_file_open_sidecar ==
    /\ etlPc = "moved"
    /\ archive' = With(archive, SidecarArchiveKey(etlDir, etlCur), PartialJson(etlSidecar))
    /\ etlPc' = "writing"
    /\ UNCHANGED <<inbox, staging, envVars, etlDirs, etlFiles, etlDir, etlCur, etlSidecar,
                   etlExc, index, embVars, syncVars>>
    /\ UNCHANGED <<tmp, auxVars>>

process_file_dump_sidecar ==
    /\ etlPc = "writing"
    /\ archive' = With(archive, SidecarArchiveKey(etlDir, etlCur), JsonFile(etlSidecar))
    /\ etlPc' = "written"
    /\ UNCHANGED <<inbox, staging, envVars, etlDirs, etlFiles, etlDir, etlCur, etlSidecar,
                   etlExc, index, embVars, syncVars>>
    /\ UNCHANGED <<tmp, auxVars>>

\* shutil.copy2(sidecar_archive_path, sidecar_staging_path): the staging
\* file is created or truncated, then filled with the archive sidecar.
process_file_copy_open ==
    /\ etlPc = "written"
    /\ SidecarArchiveKey(etlDir, etlCur) \in DOMAIN archive
    /\ staging' = With(staging, SidecarStagingKey(etlDir, etlCur),
                       PartialJson(archive[SidecarArchiveKey(etlDir, etlCur)].doc))
    /\ etlPc' = "copying"
    /\ UNCHANGED <<inbox, archive, envVars, etlDirs, etlFiles, etlDir, etlCur, etlSidecar,
                   etlExc, index, embVars, syncVars>>
    /\ UNCHANGED <<tmp, auxVars>>

process_file_copy_done ==
    /\ etlPc = "copying"
    /\ SidecarArchiveKey(etlDir, etlCur) \in DOMAIN archive
    /\ staging' = With(staging, SidecarStagingKey(etlDir, etlCur),
                       archive[SidecarArchiveKey(etlDir, etlCur)])
    /\ etlPc' = "walk"
    /\ etlCur' = NoName
    /\ etlSidecar' = NoDoc
    /\ UNCHANGED <<inbox, archive, envVars, etlDirs, etlFiles, etlDir, etlExc, index, embVars, syncVars>>
    /\ UNCHANGED <<tmp, auxVars>>

\* A step of process_file raises: scan_once catches the exception.  A PDF
\* whose extraction raises has its OCR output already created (ocr_pdf makes
\* the file first and its finally clause removes nothing).
process_file_raise(step) ==
    /\ step \in FailingSteps(etlPc)
    /\ etlPc' = "except"
    /\ etlExc' = step
    /\ UNCHANGED <<fsVars, envVars, etlDirs, etlFiles, etlDir, etlCur, etlSidecar, index, embVars, syncVars>>
    /\ tmp' = IF etlPc = "file"
              THEN IF IsPdf(etlCur) THEN tmp \cup {OcrOutput(etlDir, etlCur, "raised")} ELSE tmp
              ELSE Abandon(tmp, etlDir, etlCur, "raised")
    /\ UNCHANGED auxVars

\* except Exception: the failure is printed and the loop goes on.
scan_once_except ==
    /\ etlPc = "except"
    /\ etlPc' = "walk"
    /\ etlExc' = "none"
    /\ etlCur' = NoName
    /\ etlSidecar' = NoDoc
    /\ UNCHANGED <<fsVars, envVars, etlDirs, etlFiles, etlDir, index, embVars, syncVars>>
    /\ UNCHANGED <<tmp, auxVars>>

\* The extraction stage is terminated, at any point.
etl_terminate ==
    /\ etlPc # "down"
    /\ crashes < MaxCrashes
    /\ crashes' = crashes + 1
    /\ etlPc' = "down"
    /\ etlDirs' = {}
    /\ etlFiles' = {}
    /\ etlDir' = <<>>
    /\ etlCur' = NoName
    /\ etlSidecar' = NoDoc
    /\ etlExc' = "none"
    /\ UNCHANGED <<fsVars, dropped, redo, index, embVars, syncVars>>
    /\ tmp' = Abandon(tmp, etlDir, etlCur, "killed")
    /\ UNCHANGED auxVars

\* The extraction stage is started again: main.
etl_main ==
    /\ etlPc = "down"
    /\ etlPc' = "poll"
    /\ UNCHANGED <<fsVars, envVars, etlDirs, etlFiles, etlDir, etlCur, etlSidecar, etlExc,
                   index, embVars, syncVars>>
    /\ UNCHANGED <<tmp, auxVars>>

EtlNext ==
    \/ scan_once_begin
    \/ \E d \in InboxDirs : scan_once_walk(d)
    \/ \E n \in etlFiles : scan_once_name(n)
    \/ scan_once_end
    \/ process_file_extract
    \/ process_file_move_rename
    \/ process_file_move_copy
    \/ process_file_move_unlink
    \/ process_file_open_sidecar
    \/ process_file_dump_sidecar
    \/ process_file_copy_open
    \/ process_file_copy_done
    \/ \E step \in {"extract", "checksum", "move", "sidecar", "copy"} : process_file_raise(step)
    \/ scan_once_except
    \/ etl_terminate
    \/ etl_main

(***************************************************************************)
(* The sync stage: main_loop, scan_staging, process_staging_file and       *)
(* ingest_json.                                                            *)
(***************************************************************************)
\* STAGING_DIR.glob("*.json")
IsJsonName(n) == Lower(SplitextExt(n)) = "json" /\ SplitextExt(n) = "json"

\* An identifier taken from the path of the staging file, not from the sidecar.
ObjIdOfPath(data, n) ==
    normalize_uuid(PlainStr(PathOnly(os_path_join("staging", <<>>, n))))

\* obj_id = normalize_uuid(data.get("id") or str(path))
ObjId(data, n) ==
    normalize_uuid(IF data.id.of.path = NoPath
                   THEN PlainStr(PathOnly(os_path_join("staging", <<>>, n)))
                   ELSE data.id)

\* The properties ingest_json sends with the upsert.
SidecarProps(data) ==
    [text |-> data.text, item_type |-> data.item_type, source_path |-> data.source_path,
     archived_path |-> data.archived_path, checksum |-> data.checksum]

\* main_loop is entered: the schema is ensured and the directories made.
main_loop_start ==
    /\ embPc = "start"
    /\ embPc' = "poll"
    /\ UNCHANGED <<fsVars, envVars, etlVars, syncVars, index, embFiles, embCur, embData, embUpserted,
                   embExc>>
    /\ UNCHANGED <<tmp, auxVars>>

\* scan_staging is entered: the staging directory is listed.
scan_staging_begin ==
    /\ embPc = "poll"
    /\ embPc' = "staging"
    /\ embFiles' = {n \in DOMAIN staging : IsJsonName(n)}
    /\ UNCHANGED <<fsVars, envVars, etlVars, syncVars, index, embCur, embData, embUpserted, embExc>>
    /\ UNCHANGED <<tmp, auxVars>>

\* An ingest_json without the empty-text return: every parsed sidecar goes on
\* to embed_text.
ingest_json_load_no_skip(n) ==
    /\ embPc = "staging"
    /\ n \in embFiles
    /\ embFiles' = embFiles \ {n}
    /\ embCur' = n
    /\ IF n \notin DOMAIN staging \/ staging[n].kind # "json"
       THEN /\ embPc' = "except"
            /\ embExc' = "json"
            /\ UNCHANGED embData
       ELSE /\ embData' = staging[n].doc
            /\ embPc' = "loaded"
            /\ UNCHANGED embExc
    /\ UNCHANGED <<fsVars, envVars, etlVars, syncVars, index, embUpserted>>
    /\ UNCHANGED <<tmp, auxVars>>

\* process_staging_file, ingest_json: the file is opened and parsed.  A file
\* that does not parse raises; empty text makes ingest_json return at once.
ingest_json_load(n) ==
    /\ embPc = "staging"
    /\ n \in embFiles
    /\ embFiles' = embFiles \ {n}
    /\ embCur' = n
    /\ IF n \notin DOMAIN staging \/ staging[n].kind # "json"
       THEN /\ embPc' = "except"
            /\ embExc' = "json"
            /\ UNCHANGED embData
       ELSE /\ embData' = staging[n].doc
            /\ embPc' = IF staging[n].doc.text = "" THEN "unlink" ELSE "loaded"
            /\ UNCHANGED embExc
    /\ UNCHANGED <<fsVars, envVars, etlVars, syncVars, index, embUpserted>>
    /\ UNCHANGED <<tmp, auxVars>>

\* ingest_json: embed_text, then upsert_object under the sidecar's id.
ingest_json_upsert ==
    /\ embPc = "loaded"
    /\ index' = upsert_object(index, ObjId(embData, embCur), SidecarProps(embData))
    /\ embUpserted' = ObjId(embData, embCur)
    /\ embPc' = "unlink"
    /\ UNCHANGED <<fsVars, envVars, etlVars, syncVars, embFiles, embCur, embData, embExc>>
    /\ UNCHANGED <<tmp, auxVars>>

\* A process_staging_file that swallows the failure and goes on to the unlink.
ingest_json_raise_swallowed(step) ==
    /\ embPc = "loaded"
    /\ step \in {"embed", "upsert"}
    /\ embPc' = "unlink"
    /\ UNCHANGED <<fsVars, envVars, etlVars, syncVars, index, embFiles, embCur, embData,
                   embUpserted, embExc>>
    /\ UNCHANGED <<tmp, auxVars>>

\* embed_text or upsert_object raises (status other than 200/201, or the
\* service is unreachable): nothing is written.
ingest_json_raise(step) ==
    /\ embPc = "loaded"
    /\ step \in {"embed", "upsert"}
    /\ embPc' = "except"
    /\ embExc' = step
    /\ UNCHANGED <<fsVars, envVars, etlVars, syncVars, index, embFiles, embCur, embData, embUpserted>>
    /\ UNCHANGED <<tmp, auxVars>>

\* A process_staging_file that removes the archive sidecar together with the
\* staging copy.
process_staging_unlink_both ==
    /\ embPc = "unlink"
    /\ embCur \in DOMAIN staging
    /\ staging' = Without(staging, embCur)
    /\ archive' = Without(archive, <<embData.archived_path.dir, embCur>>)
    /\ embPc' = "staging"
    /\ embCur' = NoName
    /\ embData' = NoDoc
    /\ embUpserted' = NoId
    /\ UNCHANGED <<inbox, envVars, etlVars, syncVars, index, embFiles, embExc>>
    /\ UNCHANGED <<tmp, auxVars>>

\* process_staging_file: path.unlink() after ingest_json has returned.
process_staging_unlink ==
    /\ embPc = "unlink"
    /\ embCur \in DOMAIN staging
    /\ staging' = Without(staging, embCur)
    /\ embPc' = "staging"
    /\ embCur' = NoName
    /\ embData' = NoDoc
    /\ embUpserted' = NoId
    /\ UNCHANGED <<inbox, archive, envVars, etlVars, syncVars, index, embFiles, embExc>>
    /\ UNCHANGED <<tmp, auxVars>>

\* A scan_staging whose handler sits outside the loop: the scan is given up.
scan_staging_except_outside ==
    /\ embPc = "except"
    /\ embPc' = "poll"
    /\ embExc' = "none"
    /\ embCur' = NoName
    /\ embData' = NoDoc
    /\ embUpserted' = NoId
    /\ UNCHANGED <<fsVars, envVars, etlVars, syncVars, index, embFiles>>
    /\ UNCHANGED <<tmp, auxVars>>

\* except Exception in scan_staging: the failure is printed, the loop goes on.
scan_staging_except ==
    /\ embPc = "except"
    /\ embPc' = "staging"
    /\ embExc' = "none"
    /\ embCur' = NoName
    /\ embData' = NoDoc
    /\ embUpserted' = NoId
    /\ UNCHANGED <<fsVars, envVars, etlVars, syncVars, index, embFiles>>
    /\ UNCHANGED <<tmp, auxVars>>

(***************************************************************************)
(* The sync stage: scan_active_files over the live document tree.          *)
(***************************************************************************)
\* How far the modification time of a live document advances in one run.
MaxMtime == 2

\* The live documents a user may create and edit, and one that is there
\* from the beginning and is no text document.
ActivePaths ==
    { os_path_join("active", <<>>, <<"notes", "md">>),
      os_path_join("active", <<"sub">>, <<"todo", "txt">>) }
LogoPath == os_path_join("active", <<>>, <<"logo", "png">>)

Texts == {"draft", "final"}

\* The environment: a user creates or edits a live document.
WriteActive(p, text) ==
    /\ p \in ActivePaths
    /\ LET mtime == IF p \in DOMAIN active THEN active[p].mtime + 1 ELSE 1
       IN  /\ mtime <= MaxMtime
           /\ active' = With(active, p, [mtime |-> mtime, text |-> text])
    /\ UNCHANGED <<fsVars, envVars, etlVars, index, embVars, state, actFiles, actCur,
                   actMtime, actText, lastObs, scanUpserts>>
    /\ UNCHANGED <<tmp, auxVars>>

\* path.suffix not in {".md", ".txt"}
IsActiveText(p) == SplitextExt(p.name) \in {"md", "txt"}

\* A watermark test that skips only strictly older modification times.
WatermarkSkipsOlder(st, key, mtime) == key \in DOMAIN st /\ st[key] > mtime

\* key in state and state[key] >= mtime
WatermarkSkips(st, key, mtime) == key \in DOMAIN st /\ st[key] >= mtime

\* An identifier derived from the path and the content.
ActiveObjIdOfContent(key, text) ==
    normalize_uuid(PlainStr(PathAndSum(key, file_checksum(text))))

\* obj_id = normalize_uuid(key)
ActiveObjId(key, text) == normalize_uuid(PlainStr(PathOnly(key)))

ActiveProps(key, text) ==
    [text |-> text, item_type |-> "active", source_path |-> key,
     archived_path |-> NoPath, checksum |-> NoChecksum]

Observation(mtime, outcome) == [mtime |-> mtime, outcome |-> outcome]

\* scan_staging returns and scan_active_files lists ACTIVE_DIR.rglob("*");
\* with nothing to yield it returns at once and main_loop sleeps.
scan_active_begin ==
    /\ embPc = "staging"
    /\ embFiles = {}
    /\ actFiles' = DOMAIN active
    /\ scanUpserts' = EmptyDir
    /\ embPc' = IF DOMAIN active = {} THEN "poll" ELSE "act_walk"
    /\ UNCHANGED <<fsVars, envVars, etlVars, index, embFiles, embCur, embData, embUpserted,
                   embExc, active, state, actCur, actMtime, actText, lastObs>>
    /\ UNCHANGED <<tmp, auxVars>>

\* The next path: skipped by suffix, skipped by its watermark, or taken.
scan_active_visit(p) ==
    /\ embPc = "act_walk"
    /\ p \in actFiles
    /\ actFiles' = actFiles \ {p}
    /\ IF ~IsActiveText(p)
       THEN UNCHANGED <<embPc, actCur, actMtime, lastObs>>
       ELSE IF WatermarkSkips(state, p, active[p].mtime)
       THEN /\ lastObs' = With(lastObs, p, Observation(active[p].mtime, "skipped"))
            /\ UNCHANGED <<embPc, actCur, actMtime>>
       ELSE /\ embPc' = "act_read"
            /\ actCur' = p
            /\ actMtime' = active[p].mtime
            /\ UNCHANGED lastObs
    /\ UNCHANGED <<fsVars, envVars, etlVars, index, embFiles, embCur, embData, embUpserted,
                   embExc, active, state, actText, scanUpserts>>
    /\ UNCHANGED <<tmp, auxVars>>

\* with path.open(...) as f: text = f.read()
scan_active_read ==
    /\ embPc = "act_read"
    /\ actText' = active[actCur].text
    /\ embPc' = "act_embed"
    /\ UNCHANGED <<fsVars, envVars, etlVars, index, embFiles, embCur, embData, embUpserted,
                   embExc, active, state, actFiles, actCur, actMtime, lastObs, scanUpserts>>
    /\ UNCHANGED <<tmp, auxVars>>

\* embed_text, then inside the try: upsert_object and state[key] = mtime.
scan_active_upsert ==
    /\ embPc = "act_embed"
    /\ index' = upsert_object(index, ActiveObjId(actCur, actText), ActiveProps(actCur, actText))
    /\ state' = With(state, actCur, actMtime)
    /\ lastObs' = With(lastObs, actCur, Observation(actMtime, "ok"))
    /\ scanUpserts' = With(scanUpserts, actCur,
                           IF actCur \in DOMAIN scanUpserts
                           THEN [scanUpserts[actCur] EXCEPT !.n = @ + 1]
                           ELSE [n |-> 1, was |-> IF actCur \in DOMAIN state THEN state[actCur] ELSE 0])
    /\ embPc' = "act_walk"
    /\ actCur' = NoPath
    /\ actMtime' = 0
    /\ actText' = ""
    /\ UNCHANGED <<fsVars, envVars, etlVars, embFiles, embCur, embData, embUpserted, embExc,
                   active, actFiles>>
    /\ UNCHANGED <<tmp, auxVars>>

\* upsert_object raises inside the try: the exception is caught.
scan_active_upsert_raise ==
    /\ embPc = "act_embed"
    /\ embPc' = "act_except"
    /\ embExc' = "upsert"
    /\ lastObs' = With(lastObs, actCur, Observation(actMtime, "failed"))
    /\ UNCHANGED <<fsVars, envVars, etlVars, index, embFiles, embCur, embData, embUpserted,
                   active, state, actFiles, actCur, actMtime, actText, scanUpserts>>
    /\ UNCHANGED <<tmp, auxVars>>

\* except Exception in scan_active_files: printed, the loop goes on.
scan_active_except ==
    /\ embPc = "act_except"
    /\ embPc' = "act_walk"
    /\ embExc' = "none"
    /\ actCur' = NoPath
    /\ actMtime' = 0
    /\ actText' = ""
    /\ UNCHANGED <<fsVars, envVars, etlVars, index, embFiles, embCur, embData, embUpserted,
                   active, state, actFiles, lastObs, scanUpserts>>
    /\ UNCHANGED <<tmp, auxVars>>

\* path.open, f.read or embed_text raises, outside the try: nothing in
\* scan_active_files or in main_loop catches it, the ingestion thread ends.
scan_active_raise(step) ==
    /\ \/ embPc = "act_read" /\ step = "read"
       \/ embPc = "act_embed" /\ step = "embed"
    /\ embPc' = "dead"
    /\ embExc' = step
    /\ UNCHANGED <<fsVars, envVars, etlVars, index, embFiles, embCur, embData, embUpserted,
                   active, state, actFiles, actCur, actMtime, actText, lastObs, scanUpserts>>
    /\ UNCHANGED <<tmp, auxVars>>

\* rglob is exhausted: scan_active_files returns and main_loop sleeps.
scan_active_end ==
    /\ embPc = "act_walk"
    /\ actFiles = {}
    /\ embPc' = "poll"
    /\ UNCHANGED <<fsVars, envVars, etlVars, index, embFiles, embCur, embData, embUpserted,
                   embExc, syncVars>>
    /\ UNCHANGED <<tmp, auxVars>>

\* The sync stage is terminated, at any point.
emb_terminate ==
    /\ embPc # "down"
    /\ crashes < MaxCrashes
    /\ crashes' = crashes + 1
    /\ redo' = IF embPc = "unlink" /\ embUpserted # NoId THEN embUpserted ELSE redo
    /\ embPc' = "down"
    /\ embFiles' = {}
    /\ embCur' = NoName
    /\ embData' = NoDoc
    /\ embUpserted' = NoId
    /\ embExc' = "none"
    /\ state' = EmptyDir
    /\ actFiles' = {}
    /\ actCur' = NoPath
    /\ actMtime' = 0
    /\ actText' = ""
    /\ lastObs' = EmptyDir
    /\ scanUpserts' = EmptyDir
    /\ UNCHANGED <<fsVars, dropped, etlVars, index, active>>
    /\ UNCHANGED <<tmp, auxVars>>

\* The process of the sync stage is started again, after a termination or
\* after its ingestion thread has ended.
emb_restart ==
    /\ embPc \in {"down", "dead"}
    /\ embPc' = "start"
    /\ embExc' = "none"
    /\ state' = EmptyDir
    /\ actFiles' = {}
    /\ actCur' = NoPath
    /\ actMtime' = 0
    /\ actText' = ""
    /\ lastObs' = EmptyDir
    /\ scanUpserts' = EmptyDir
    /\ UNCHANGED <<fsVars, envVars, etlVars, index, embFiles, embCur, embData, embUpserted,
                   active>>
    /\ UNCHANGED <<tmp, auxVars>>

EmbNext ==
    \/ main_loop_start
    \/ scan_staging_begin
    \/ \E n \in embFiles : ingest_json_load(n)
    \/ ingest_json_upsert
    \/ \E step \in {"embed", "upsert"} : ingest_json_raise(step)
    \/ process_staging_unlink
    \/ scan_staging_except
    \/ scan_active_begin
    \/ emb_terminate
    \/ emb_restart

\* The sync stage on a live document tree, with nothing staged.
ActiveNext ==
    \/ \E p \in ActivePaths, text \in Texts : WriteActive(p, text)
    \/ main_loop_start
    \/ scan_staging_begin
    \/ scan_active_begin
    \/ \E p \in actFiles : scan_active_visit(p)
    \/ scan_active_read
    \/ scan_active_upsert
    \/ scan_active_upsert_raise
    \/ scan_active_except
    \/ \E step \in {"read", "embed"} : scan_active_raise(step)
    \/ scan_active_end
    \/ emb_terminate
    \/ emb_restart

Next ==
    \/ \E i \in Inputs : Drop(i)
    \/ EtlNext
    \/ EmbNext

\* Both stages on an inbox that receives files; ACTIVE_DIR stays empty.
Spec == Init /\ [][Next]_vars

\* Both stages when no step raises and no stage is terminated.
HappyNext ==
    \/ \E i \in Inputs : Drop(i)
    \/ scan_once_begin
    \/ \E d \in InboxDirs : scan_once_walk(d)
    \/ \E n \in etlFiles : scan_once_name(n)
    \/ scan_once_end
    \/ process_file_extract
    \/ process_file_move_rename
    \/ process_file_move_copy
    \/ process_file_move_unlink
    \/ process_file_open_sidecar
    \/ process_file_dump_sidecar
    \/ process_file_copy_open
    \/ process_file_copy_done
    \/ main_loop_start
    \/ scan_staging_begin
    \/ \E n \in embFiles : ingest_json_load(n)
    \/ ingest_json_upsert
    \/ process_staging_unlink
    \/ scan_staging_except
    \/ scan_active_begin

HappySpec == Init /\ [][HappyNext]_vars

\* The sync stage alone on a live document tree that is edited.
ActiveInit ==
    /\ inbox = EmptyDir
    /\ archive = EmptyDir
    /\ staging = EmptyDir
    /\ dropped = {}
    /\ crashes = 0
    /\ redo = NoId
    /\ etlPc = "poll"
    /\ etlDirs = {}
    /\ etlFiles = {}
    /\ etlDir = <<>>
    /\ etlCur = NoName
    /\ etlSidecar = NoDoc
    /\ etlExc = "none"
    /\ index = EmptyBag
    /\ embPc = "start"
    /\ embFiles = {}
    /\ embCur = NoName
    /\ embData = NoDoc
    /\ embUpserted = NoId
    /\ embExc = "none"
    /\ active = (LogoPath :> [mtime |-> 1, text |-> "draft"])
    /\ state = EmptyDir
    /\ actFiles = {}
    /\ actCur = NoPath
    /\ actMtime = 0
    /\ actText = ""
    /\ lastObs = EmptyDir
    /\ scanUpserts = EmptyDir
    /\ tmp = {}
    /\ storeClass = NoClass
    /\ schPc = "idle"
    /\ schExisting = {}
    /\ schI = 1
    /\ schAdds = <<>>
    /\ schQuery = "none"
    /\ schPre = NoClass
    /\ rxPc = "idle"
    /\ rxFiles = {}
    /\ rxCur = NoName
    /\ rxData = NoDoc
    /\ rxRuns = 0
    /\ rxClean = TRUE
    /\ rxSnapshot = EmptyDir
    /\ rxIndex1 = EmptyBag

ActiveSpec == ActiveInit /\ [][ActiveNext]_vars

(***************************************************************************)
(* The sync stage's start: ensure_schema, step by step, before main_loop   *)
(* or the reindex entry point goes on.  (In the specifications above       *)
(* main_loop_start stands for an ensure_schema that succeeded.)            *)
(***************************************************************************)
\* desired_properties, in the order ensure_schema walks them.
desired_properties ==
    <<"text", "item_type", "source_path", "archived_path", "checksum",
      "created_at", "updated_at">>
DesiredNames == {desired_properties[i] : i \in DOMAIN desired_properties}

\* The collection POST /v1/schema creates: schema["properties"], vectorizer none.
CreatedClass ==
    [exists |-> TRUE, vectorizer |-> "none",
     properties |-> [n \in DesiredNames |-> "text"]]

\* The collections the store may hold when the stage starts: none, or one
\* with any subset of the required fields and possibly a field of its own,
\* typed as the store's earlier users chose, with or without a vectorizer.
StoreClasses ==
    {NoClass} \cup
    { [exists |-> TRUE, vectorizer |-> v,
       properties |-> [n \in F |-> IF n = "checksum" THEN t
                                   ELSE IF n = "legacy" THEN "int" ELSE "text"]] :
        F \in SUBSET (DesiredNames \cup {"legacy"}),
        t \in {"text", "string"},
        v \in {"none", "text2vec"} }

\* A sidecar the extraction stage left in staging and archive before the
\* sync stage was started.
SeedInput == [dir |-> <<"receipts">>, name |-> <<"foo", "PDF">>, bytes |-> "scan-of-receipt"]
SeedDoc ==
    build_sidecar(os_path_join("inbox", SeedInput.dir, SeedInput.name),
                  os_path_join("archive", SeedInput.dir, SeedInput.name),
                  ItemType(SeedInput.dir), TextOfBytes(SeedInput.bytes), SeedInput.bytes)
SeedArchive ==
    With(With(EmptyDir, ArchiveKey(SeedInput.dir, SeedInput.name), RawFile(SeedInput.bytes)),
         SidecarArchiveKey(SeedInput.dir, SeedInput.name), JsonFile(SeedDoc))
SeedStaging ==
    With(EmptyDir, SidecarStagingKey(SeedInput.dir, SeedInput.name), JsonFile(SeedDoc))

\* existing = requests.get(f"{WEAVIATE_URL}/v1/schema"): answered with 200,
\* answered with another status, or not answered (requests raises).
ensure_schema_get(answer) ==
    /\ schPc = "idle"
    /\ embPc = "start" \/ rxPc = "start"
    /\ answer \in {"200", "503", "unreachable"}
    /\ schPre' = storeClass
    /\ CASE answer = "200" ->
              /\ schQuery' = "ok"
              /\ IF storeClass.exists
                 THEN /\ schExisting' = DOMAIN storeClass.properties
                      /\ schPc' = "add"
                 ELSE /\ schPc' = "create"
                      /\ UNCHANGED schExisting
         [] answer = "503" ->
              /\ schQuery' = "status"
              /\ schPc' = "create"
              /\ UNCHANGED schExisting
         [] OTHER ->
              /\ schQuery' = "raised"
              /\ schPc' = "failed"
              /\ UNCHANGED schExisting
    /\ schI' = 1
    /\ UNCHANGED <<fsVars, envVars, etlVars, index, embVars, syncVars, tmp, storeClass,
                   schAdds, rxVars>>

\* A reconciler that posts every desired property, existing or not.
ensure_schema_prop_always ==
    /\ schPc = "add"
    /\ schI <= Len(desired_properties)
    /\ LET name == desired_properties[schI]
       IN  /\ storeClass' = [storeClass EXCEPT
                                !.properties = With(storeClass.properties, name, "text")]
           /\ schAdds' = Append(schAdds, name)
    /\ schI' = schI + 1
    /\ UNCHANGED <<fsVars, envVars, etlVars, index, embVars, syncVars, tmp,
                   schPc, schExisting, schQuery, schPre, rxVars>>

\* for prop in desired_properties: a missing one is added with a POST.
ensure_schema_prop ==
    /\ schPc = "add"
    /\ schI <= Len(desired_properties)
    /\ LET name == desired_properties[schI]
       IN  IF name \in schExisting
           THEN UNCHANGED <<storeClass, schAdds>>
           ELSE /\ storeClass' = [storeClass EXCEPT
                                     !.properties = With(storeClass.properties, name, "text")]
                /\ schAdds' = Append(schAdds, name)
    /\ schI' = schI + 1
    /\ UNCHANGED <<fsVars, envVars, etlVars, index, embVars, syncVars, tmp,
                   schPc, schExisting, schQuery, schPre, rxVars>>

\* The POST of a missing property is answered with a status other than
\* 200/201: RuntimeError.
ensure_schema_prop_raise ==
    /\ schPc = "add"
    /\ schI <= Len(desired_properties)
    /\ desired_properties[schI] \notin schExisting
    /\ schPc' = "failed"
    /\ UNCHANGED <<fsVars, envVars, etlVars, index, embVars, syncVars, tmp,
                   storeClass, schExisting, schI, schAdds, schQuery, schPre, rxVars>>

\* The loop over desired_properties is done: return.
ensure_schema_return ==
    /\ schPc = "add"
    /\ schI > Len(desired_properties)
    /\ schPc' = "done"
    /\ UNCHANGED <<fsVars, envVars, etlVars, index, embVars, syncVars, tmp,
                   storeClass, schExisting, schI, schAdds, schQuery, schPre, rxVars>>

\* requests.post(f"{WEAVIATE_URL}/v1/schema", json=schema): the store creates
\* the collection, or rejects the request when it already holds one of that
\* name.
ensure_schema_create ==
    /\ schPc = "create"
    /\ IF storeClass.exists
       THEN /\ schPc' = "failed"
            /\ UNCHANGED storeClass
       ELSE /\ schPc' = "done"
            /\ storeClass' = CreatedClass
    /\ UNCHANGED <<fsVars, envVars, etlVars, index, embVars, syncVars, tmp,
                   schExisting, schI, schAdds, schQuery, schPre, rxVars>>

\* The creation is answered with a status other than 200/201, or not at all.
ensure_schema_create_raise ==
    /\ schPc = "create"
    /\ schPc' = "failed"
    /\ UNCHANGED <<fsVars, envVars, etlVars, index, embVars, syncVars, tmp,
                   storeClass, schExisting, schI, schAdds, schQuery, schPre, rxVars>>

\* main_loop after ensure_schema has returned: makedirs, state = {}.
main_loop_enter ==
    /\ embPc = "start"
    /\ schPc = "done"
    /\ embPc' = "poll"
    /\ UNCHANGED <<fsVars, envVars, etlVars, index, embFiles, embCur, embData, embUpserted,
                   embExc, syncVars, tmp, auxVars>>

\* The reindex branch after ensure_schema has returned: reindex_archive is called.
reindex_enter ==
    /\ rxPc = "start"
    /\ schPc = "done"
    /\ rxPc' = "ready"
    /\ UNCHANGED <<fsVars, envVars, etlVars, index, embVars, syncVars, tmp, schemaVars,
                   rxFiles, rxCur, rxData, rxRuns, rxClean, rxSnapshot, rxIndex1>>

(***************************************************************************)
(* The reindex entry point: python app.py --reindex, reindex_archive.  It   *)
(* is a process of its own, which exits when the archive has been walked.  *)
(***************************************************************************)
\* How many times the operator runs the reindex operation.
MaxRuns == 2

\* archive_dir.rglob("*.json")
ArchiveJsonPaths(dir) == {k \in DOMAIN dir : IsJsonName(k[2])}

\* obj_id = normalize_uuid(data.get("id") or str(path)), path in the archive
RxObjId(data, k) ==
    normalize_uuid(IF data.id.of.path = NoPath
                   THEN PlainStr(PathOnly(os_path_join("archive", k[1], k[2])))
                   ELSE data.id)

\* The operator starts the reindex operation; ensure_schema succeeds.
reindex_main ==
    /\ rxPc \in {"idle", "exit"}
    /\ rxRuns < MaxRuns
    /\ rxRuns' = rxRuns + 1
    /\ rxPc' = "ready"
    /\ UNCHANGED <<fsVars, envVars, etlVars, index, embVars, syncVars, tmp, schemaVars,
                   rxFiles, rxCur, rxData, rxClean, rxSnapshot, rxIndex1>>

\* reindex_archive is entered: the archive is listed.
reindex_archive_begin ==
    /\ rxPc = "ready"
    /\ rxFiles' = ArchiveJsonPaths(archive)
    /\ rxSnapshot' = IF rxRuns = 1 THEN archive ELSE rxSnapshot
    /\ rxPc' = "walk"
    /\ UNCHANGED <<fsVars, envVars, etlVars, index, embVars, syncVars, tmp, schemaVars,
                   rxCur, rxData, rxRuns, rxClean, rxIndex1>>

\* ingest_json(path): the file is opened and parsed.  A file that does not
\* parse raises; empty text makes ingest_json return at once (count += 1).
reindex_ingest_load(k) ==
    /\ rxPc = "walk"
    /\ k \in rxFiles
    /\ rxFiles' = rxFiles \ {k}
    /\ rxCur' = k
    /\ IF k \notin DOMAIN archive \/ archive[k].kind # "json"
       THEN /\ rxPc' = "except"
            /\ UNCHANGED rxData
       ELSE /\ rxData' = archive[k].doc
            /\ rxPc' = IF archive[k].doc.text = "" THEN "walk" ELSE "loaded"
    /\ UNCHANGED <<fsVars, envVars, etlVars, index, embVars, syncVars, tmp, schemaVars,
                   rxRuns, rxClean, rxSnapshot, rxIndex1>>

\* ingest_json: embed_text, then upsert_object under the sidecar's id.
reindex_ingest_upsert ==
    /\ rxPc = "loaded"
    /\ index' = upsert_object(index, RxObjId(rxData, rxCur), SidecarProps(rxData))
    /\ rxPc' = "walk"
    /\ UNCHANGED <<fsVars, envVars, etlVars, embVars, syncVars, tmp, schemaVars,
                   rxFiles, rxCur, rxData, rxRuns, rxClean, rxSnapshot, rxIndex1>>

\* embed_text or upsert_object raises: nothing is written.
reindex_ingest_raise(step) ==
    /\ rxPc = "loaded"
    /\ step \in {"embed", "upsert"}
    /\ rxPc' = "except"
    /\ rxClean' = FALSE
    /\ UNCHANGED <<fsVars, envVars, etlVars, index, embVars, syncVars, tmp, schemaVars,
                   rxFiles, rxCur, rxData, rxRuns, rxSnapshot, rxIndex1>>

\* A reindex_archive whose handler sits outside the loop: the walk is given up.
reindex_archive_except_outside ==
    /\ rxPc = "except"
    /\ rxPc' = "exit"
    /\ UNCHANGED <<fsVars, envVars, etlVars, index, embVars, syncVars, tmp, schemaVars,
                   rxFiles, rxCur, rxData, rxRuns, rxClean, rxSnapshot, rxIndex1>>

\* except Exception in reindex_archive: the failure is printed, the loop goes on.
reindex_archive_except ==
    /\ rxPc = "except"
    /\ rxPc' = "walk"
    /\ UNCHANGED <<fsVars, envVars, etlVars, index, embVars, syncVars, tmp, schemaVars,
                   rxFiles, rxCur, rxData, rxRuns, rxClean, rxSnapshot, rxIndex1>>

\* rglob is exhausted: reindex_archive returns and the process exits.
reindex_archive_end ==
    /\ rxPc = "walk"
    /\ rxFiles = {}
    /\ rxPc' = "exit"
    /\ rxCur' = NoName
    /\ rxData' = NoDoc
    /\ rxIndex1' = IF rxRuns = 1 THEN index ELSE rxIndex1
    /\ UNCHANGED <<fsVars, envVars, etlVars, index, embVars, syncVars, tmp, schemaVars,
                   rxFiles, rxRuns, rxClean, rxSnapshot>>

\* The environment: between two runs of the reindex operation the operator
\* corrects the text of a sidecar in the archive of record (the sidecar
\* keeps its id).
ReviseSidecar(k) ==
    /\ rxPc = "exit"
    /\ k \in DOMAIN archive
    /\ archive[k].kind = "json"
    /\ archive[k].doc.text \notin {"", "corrected"}
    /\ archive' = With(archive, k, JsonFile([archive[k].doc EXCEPT !.text = "corrected"]))
    /\ UNCHANGED <<inbox, staging, envVars, etlVars, index, embVars, syncVars, tmp, auxVars>>

ReindexNext ==
    \/ \E i \in Inputs : Drop(i)
    \/ scan_once_begin
    \/ \E d \in InboxDirs : scan_once_walk(d)
    \/ \E n \in etlFiles : scan_once_name(n)
    \/ scan_once_end
    \/ process_file_extract
    \/ process_file_move_rename
    \/ process_file_open_sidecar
    \/ process_file_dump_sidecar
    \/ process_file_copy_open
    \/ process_file_copy_done
    \/ etl_terminate
    \/ reindex_main
    \/ reindex_archive_begin
    \/ \E k \in rxFiles : reindex_ingest_load(k)
    \/ reindex_ingest_upsert
    \/ \E step \in {"embed", "upsert"} : reindex_ingest_raise(step)
    \/ reindex_archive_except
    \/ reindex_archive_end

\* The extraction stage, which may be terminated, and the reindex operation,
\* with the polling sync stage not running (the index is being rebuilt).
ReindexSpec == Init /\ [][ReindexNext]_vars

(***************************************************************************)
(* Ingestion from both sources: the queue consumer and the reindex         *)
(* operation run on two documents the extraction stage has archived and    *)
(* staged, and the operator may correct an archive sidecar between runs.   *)
(***************************************************************************)
IngestInputs ==
    { SeedInput,
      [dir |-> <<"mail">>, name |-> <<"note", "eml">>, bytes |-> "mail-hello"] }

\* The sidecar process_file builds for an input.
SidecarOf(i) ==
    build_sidecar(os_path_join("inbox", i.dir, i.name),
                  os_path_join("archive", i.dir, i.name),
                  ItemType(i.dir), TextOfBytes(i.bytes), i.bytes)

\* Archive and staging after process_file has returned for each input.
ArchiveOf(S) ==
    [k \in {ArchiveKey(i.dir, i.name) : i \in S} \cup
           {SidecarArchiveKey(i.dir, i.name) : i \in S} |->
        IF \E i \in S : k = ArchiveKey(i.dir, i.name)
        THEN RawFile((CHOOSE i \in S : k = ArchiveKey(i.dir, i.name)).bytes)
        ELSE JsonFile(SidecarOf(CHOOSE i \in S : k = SidecarArchiveKey(i.dir, i.name)))]
StagingOf(S) ==
    [n \in {SidecarStagingKey(i.dir, i.name) : i \in S} |->
        JsonFile(SidecarOf(CHOOSE i \in S : n = SidecarStagingKey(i.dir, i.name)))]

IngestInit ==
    /\ inbox = EmptyDir
    /\ archive = ArchiveOf(IngestInputs)
    /\ staging = StagingOf(IngestInputs)
    /\ dropped = IngestInputs
    /\ crashes = 0
    /\ redo = NoId
    /\ etlPc = "down"
    /\ etlDirs = {}
    /\ etlFiles = {}
    /\ etlDir = <<>>
    /\ etlCur = NoName
    /\ etlSidecar = NoDoc
    /\ etlExc = "none"
    /\ index = EmptyBag
    /\ embPc = "start"
    /\ embFiles = {}
    /\ embCur = NoName
    /\ embData = NoDoc
    /\ embUpserted = NoId
    /\ embExc = "none"
    /\ active = EmptyDir
    /\ state = EmptyDir
    /\ actFiles = {}
    /\ actCur = NoPath
    /\ actMtime = 0
    /\ actText = ""
    /\ lastObs = EmptyDir
    /\ scanUpserts = EmptyDir
    /\ tmp = {}
    /\ storeClass = CreatedClass
    /\ schPc = "idle"
    /\ schExisting = {}
    /\ schI = 1
    /\ schAdds = <<>>
    /\ schQuery = "none"
    /\ schPre = NoClass
    /\ rxPc = "idle"
    /\ rxFiles = {}
    /\ rxCur = NoName
    /\ rxData = NoDoc
    /\ rxRuns = 0
    /\ rxClean = TRUE
    /\ rxSnapshot = EmptyDir
    /\ rxIndex1 = EmptyBag

IngestNext ==
    \/ main_loop_start
    \/ scan_staging_begin
    \/ \E n \in embFiles : ingest_json_load(n)
    \/ ingest_json_upsert
    \/ \E step \in {"embed", "upsert"} : ingest_json_raise(step)
    \/ process_staging_unlink
    \/ scan_staging_except
    \/ scan_active_begin
    \/ reindex_main
    \/ reindex_archive_begin
    \/ \E k \in rxFiles : reindex_ingest_load(k)
    \/ reindex_ingest_upsert
    \/ \E step \in {"embed", "upsert"} : reindex_ingest_raise(step)
    \/ reindex_archive_except
    \/ reindex_archive_end
    \/ \E k \in DOMAIN archive : ReviseSidecar(k)

IngestSpec == IngestInit /\ [][IngestNext]_vars

(***************************************************************************)
(* The start of the sync stage, through main_loop or through the reindex   *)
(* entry point, against every collection the store may hold, with one      *)
(* sidecar waiting in staging and archive.                                 *)
(***************************************************************************)
SchemaInit ==
    /\ inbox = EmptyDir
    /\ archive = SeedArchive
    /\ staging = SeedStaging
    /\ dropped = {SeedInput}
    /\ crashes = 0
    /\ redo = NoId
    /\ etlPc = "down"
    /\ etlDirs = {}
    /\ etlFiles = {}
    /\ etlDir = <<>>
    /\ etlCur = NoName
    /\ etlSidecar = NoDoc
    /\ etlExc = "none"
    /\ index = EmptyBag
    /\ \/ embPc = "start" /\ rxPc = "idle" /\ rxRuns = 0
       \/ embPc = "down" /\ rxPc = "start" /\ rxRuns = 1
    /\ embFiles = {}
    /\ embCur = NoName
    /\ embData = NoDoc
    /\ embUpserted = NoId
    /\ embExc = "none"
    /\ active = EmptyDir
    /\ state = EmptyDir
    /\ actFiles = {}
    /\ actCur = NoPath
    /\ actMtime = 0
    /\ actText = ""
    /\ lastObs = EmptyDir
    /\ scanUpserts = EmptyDir
    /\ tmp = {}
    /\ storeClass \in StoreClasses
    /\ schPc = "idle"
    /\ schExisting = {}
    /\ schI = 1
    /\ schAdds = <<>>
    /\ schQuery = "none"
    /\ schPre = NoClass
    /\ rxFiles = {}
    /\ rxCur = NoName
    /\ rxData = NoDoc
    /\ rxClean = TRUE
    /\ rxSnapshot = EmptyDir
    /\ rxIndex1 = EmptyBag

SchemaNext ==
    \/ \E answer \in {"200", "503", "unreachable"} : ensure_schema_get(answer)
    \/ ensure_schema_prop
    \/ ensure_schema_prop_raise
    \/ ensure_schema_return
    \/ ensure_schema_create
    \/ ensure_schema_create_raise
    \/ main_loop_enter
    \/ scan_staging_begin
    \/ \E n \in embFiles : ingest_json_load(n)
    \/ ingest_json_upsert
    \/ process_staging_unlink
    \/ scan_active_begin
    \/ reindex_enter
    \/ reindex_archive_begin
    \/ \E k \in rxFiles : reindex_ingest_load(k)
    \/ reindex_ingest_upsert
    \/ reindex_archive_end

SchemaSpec == SchemaInit /\ [][SchemaNext]_vars

(***************************************************************************)
(* Properties.                                                             *)
(***************************************************************************)
ArchiveKeyOfPath(path) == <<path.dir, path.name>>
NamesIn(dir, d) == {k[2] : k \in {x \in DOMAIN dir : x[1] = d}}

StagingDeletion == (DOMAIN staging) \ (DOMAIN staging') # {}

IndexOnePerId ==
    \A o \in BagToSet(index) : EntriesOf(index, o.id) = 1

\* An input is archived nowhere but at its mirrored archive path.
ArchivedOnce ==
    \A i \in dropped : \A k \in DOMAIN archive :
        archive[k] = RawFile(i.bytes) => k = ArchiveKey(i.dir, i.name)

EtlTerminatedInFile == etlPc' = "down" /\ InProcessFile(etlPc)
EmbTerminatedInFile == embPc' = "down" /\ embPc \in {"loaded", "unlink"}

\* The staging directory holds the complete sidecar the extraction stage built.
Staged(dir, name, doc) ==
    /\ SidecarStagingKey(dir, name) \in DOMAIN staging
    /\ staging[SidecarStagingKey(dir, name)] = JsonFile(doc)

\* C3 as stated: whenever a stage is terminated while it processes a file,
\* the input stays retryable (the inbox file is unmoved, or the staging file
\* is unconsumed), the archive holds the file at most once and the index
\* holds at most one entry per id.
C3_TerminationKeepsRetryable ==
    [][/\ EtlTerminatedInFile =>
             \/ <<etlDir, etlCur>> \in DOMAIN inbox'
             \/ Staged(etlDir, etlCur, etlSidecar)'
       /\ EmbTerminatedInFile => embCur \in DOMAIN staging'
       /\ IndexOnePerId'
       /\ ArchivedOnce']_vars

\* C3 as amended: a termination of the extraction stage before the move has
\* completed leaves the inbox file in place; one after the move leaves the
\* file in the archive and out of the inbox (staged or not); a termination
\* of the consumer leaves the staging file in place; and in every case the
\* archive holds the file at most once and the index one entry per id.
C3_TerminationSafe ==
    [][/\ EtlTerminatedInFile =>
             IF etlPc \in {"file", "built", "moving"}
             THEN <<etlDir, etlCur>> \in DOMAIN inbox'
             ELSE /\ ArchiveKey(etlDir, etlCur) \in DOMAIN archive'
                  /\ <<etlDir, etlCur>> \notin DOMAIN inbox'
       /\ EmbTerminatedInFile => embCur \in DOMAIN staging'
       /\ IndexOnePerId'
       /\ ArchivedOnce']_vars

\* C3 witness: the consumer was terminated after an upsert and before the
\* unlink, has been started again and has upserted the same id again; the
\* index holds one entry for it.
C3_Witness ==
    /\ redo # NoId
    /\ embPc = "unlink"
    /\ embUpserted = redo
    /\ EntriesOf(index, redo) = 1

\* Neither polling loop has anything left to do.
Quiescent ==
    /\ etlPc = "poll"
    /\ embPc = "poll"
    /\ \A k \in DOMAIN inbox : StartsWithDot(k[2])
    /\ DOMAIN staging = {}

\* C4: without failures, once both loops have nothing left to do, every
\* non-hidden dropped file with non-empty text is at its mirrored archive
\* path with an archive sidecar whose item_type is the first path segment,
\* and the index holds one entry under that sidecar's id.
C4_EveryDropIndexed ==
    Quiescent =>
        \A i \in dropped :
            (~StartsWithDot(i.name) /\ TextOfBytes(i.bytes) # "") =>
                /\ ArchiveKey(i.dir, i.name) \in DOMAIN archive
                /\ SidecarArchiveKey(i.dir, i.name) \in DOMAIN archive
                /\ LET sc == archive[SidecarArchiveKey(i.dir, i.name)]
                   IN  /\ sc.kind = "json"
                       /\ sc.doc.item_type = i.dir[1]
                       /\ EntriesOf(index, sc.doc.id) = 1

\* A step in which the consumer's processing of a staging file raises, and
\* the step of the handler that follows.
StagingFailure == embPc' = "except" /\ embPc # "except"
StagingHandled == embPc = "except" /\ embPc' # "except" /\ embPc' # "down"

\* C5: a failure on one staging file (unparsable JSON, embedding error,
\* upsert error) leaves that file in the staging directory, writes nothing
\* to the index and drops no other file of the scan: the scan ends only
\* when every listed file has been taken.
C5_StagingFailureIsolated ==
    [][/\ StagingFailure =>
             /\ embExc' \in {"json", "embed", "upsert"}
             /\ staging' = staging
             /\ index' = index
             /\ embCur' \in DOMAIN staging'
             /\ embFiles' = embFiles \ {embCur'}
       /\ StagingHandled =>
             /\ staging' = staging
             /\ index' = index
             /\ embCur \in DOMAIN staging'
             /\ embFiles' = embFiles
             /\ embPc' = "staging"
       /\ (embPc = "staging" /\ embPc' \in {"poll", "act_walk"}) => embFiles = {}]_vars

\* C5 witness: the consumer failed on one file of a scan that lists another.
C5_Witness ==
    /\ embPc = "except"
    /\ embExc = "embed"
    /\ embFiles # {}
    /\ embCur \in DOMAIN staging

\* A step in which the processing of a live document fails.
ActiveFailure == embExc = "none" /\ embExc' \in {"read", "embed", "upsert"}

\* C6: the watermark of a path advances only with a successful upsert of
\* that path, to the modification time observed; when reading, embedding
\* or upserting fails, the watermark map is unchanged and the loop goes on,
\* so that the file is processed again on the next poll.
C6_WatermarkOnlyOnSuccess ==
    [][/\ (state' # state /\ embPc' \notin {"down", "start"}) =>
             /\ embPc = "act_embed"
             /\ state' = With(state, actCur, actMtime)
             /\ \E o \in BagToSet(index') : o.source_path = actCur /\ o.text = actText
       /\ ActiveFailure =>
             /\ state' = state
             /\ embPc' = "act_except"]_vars

\* A step in which scan_active_files sends an upsert for the current path.
ActiveUpsertSent == embPc = "act_embed" /\ embPc' \in {"act_walk", "act_except"}

\* The last completed observation of the current path saw the modification
\* time that is observed now.
SeenWithSameMtime == actCur \in DOMAIN lastObs /\ lastObs[actCur].mtime = actMtime

\* C7 as stated: a file observed twice with the same modification time,
\* under the same watermark map, gets no upsert at the second observation.
C7_SameMtimeNoUpsert ==
    [][ActiveUpsertSent => ~SeenWithSameMtime]_vars

\* C7 as amended: ... gets no upsert at the second observation, unless the
\* upsert of the first observation failed.
C7_SameMtimeNoUpsertUnlessFailed ==
    [][ActiveUpsertSent =>
          (SeenWithSameMtime => lastObs[actCur].outcome = "failed")]_vars

\* C7 witness: a file that was upserted is observed again, unchanged, and skipped.
C7_Witness ==
    \E p \in DOMAIN lastObs :
        /\ lastObs[p] = Observation(active[p].mtime, "skipped")
        /\ p \in DOMAIN state
        /\ state[p] = active[p].mtime
        /\ p \notin DOMAIN scanUpserts
        /\ \E o \in BagToSet(index) : o.source_path = p

\* The objects the index holds for a live document.
ActiveEntries(p) == {o \in BagToSet(index) : o.source_path = p}

\* C8: a scan upserts a live document at most once; it skips a document only
\* when its modification time is not newer than the watermark; every upsert
\* of a document goes to the identifier derived from its path alone, so the
\* index holds a single entry for the path, also after an edit.
C8_EditRevisesSameEntry ==
    \A p \in ActivePaths :
        /\ p \in DOMAIN scanUpserts => scanUpserts[p].n = 1
        /\ (p \in DOMAIN lastObs /\ lastObs[p].outcome = "skipped") =>
               (p \in DOMAIN state /\ state[p] >= lastObs[p].mtime)
        /\ \A o \in ActiveEntries(p) :
               /\ o.id = Uuid5(PathOnly(p))
               /\ EntriesOf(index, o.id) = 1
        /\ Cardinality(ActiveEntries(p)) <= 1
        /\ p \in DOMAIN state => Cardinality(ActiveEntries(p)) = 1

\* C8 witness: a document indexed at an earlier modification time was edited,
\* and the scan has upserted it once more, under the same single entry.
C8_Witness ==
    \E p \in DOMAIN scanUpserts :
        /\ scanUpserts[p].n = 1
        /\ scanUpserts[p].was >= 1
        /\ state[p] > scanUpserts[p].was
        /\ ActiveEntries(p) = {IndexObject(Uuid5(PathOnly(p)), ActiveProps(p, active[p].text))}

\* C9: a per-item failure never ends a polling loop: whenever a step of
\* scan_once, scan_staging or scan_active_files has raised, the stage is in
\* the handler of that loop, from where the remaining items are taken.
C9_NoFailureEndsLoop ==
    /\ etlExc # "none" => etlPc = "except"
    /\ embExc # "none" => embPc \in {"except", "act_except"}

\* C10 as stated: after any failure of process_file the file is still at
\* its inbox path.
C10_FailedFileStaysInInbox ==
    etlPc = "except" => <<etlDir, etlCur>> \in DOMAIN inbox

\* C10 as amended: after a failure of extraction, checksum or move the file
\* is still at its inbox path, and every scan_once lists it again; after a
\* failure of the sidecar write or of the staging copy the file is in the
\* archive and no longer in the inbox.
C10_FailureBeforeMoveKeepsFile ==
    [][/\ etlPc' = "except" =>
             IF etlExc' \in {"extract", "checksum", "move"}
             THEN <<etlDir', etlCur'>> \in DOMAIN inbox'
             ELSE /\ <<etlDir', etlCur'>> \notin DOMAIN inbox'
                  /\ ArchiveKey(etlDir', etlCur') \in DOMAIN archive'
       /\ (etlPc = "walk" /\ etlDirs' # etlDirs) =>
             etlFiles' = NamesIn(inbox, etlDir')]_vars

\* C10 witness: the move failed and the file is still in the inbox.
C10_Witness ==
    /\ etlPc = "except"
    /\ etlExc = "move"
    /\ <<etlDir, etlCur>> \in DOMAIN inbox

\* The sync stage has gone past its start: a scan has begun or something
\* has been ingested, deleted or replayed.
SyncStageProcessing ==
    \/ embPc \notin {"start", "down"}
    \/ rxPc \notin {"idle", "start"}
    \/ index # EmptyBag
    \/ staging # SeedStaging

\* C11: the sync stage (main_loop or the reindex entry point) processes
\* nothing unless ensure_schema has completed without error, and a schema
\* query that failed (answered with an error status, or not answered) stops
\* the stage before its first scan, as a failed property addition or class
\* creation does.
C11_NoProcessingWithoutSchema ==
    /\ SyncStageProcessing => schPc = "done"
    /\ schQuery \in {"status", "raised"} => ~SyncStageProcessing
    /\ schPc = "failed" => ~SyncStageProcessing

\* The property names of a collection.
FieldsOf(class) == DOMAIN class.properties

\* C12: schema reconciliation is additive-only.  Pre-existing fields are
\* never removed or retyped; once ensure_schema has returned, the collection
\* has all seven required fields; one add-property request was sent per
\* missing required field, in the order of desired_properties, and none
\* for a field that existed; an absent collection is created with the full
\* field set and vectorizer "none".
C12_AdditiveOnly ==
    /\ schPc # "idle" =>
          /\ \A n \in FieldsOf(schPre) :
                 n \in FieldsOf(storeClass) /\ storeClass.properties[n] = schPre.properties[n]
          /\ \A i \in DOMAIN schAdds :
                 /\ schAdds[i] \in DesiredNames \ FieldsOf(schPre)
                 /\ \A j \in DOMAIN schAdds : schAdds[i] = schAdds[j] => i = j
          /\ schPre.exists => storeClass.vectorizer = schPre.vectorizer
    /\ schPc = "done" =>
          /\ storeClass.exists
          /\ DesiredNames \subseteq FieldsOf(storeClass)
          /\ FieldsOf(storeClass) = FieldsOf(schPre) \cup DesiredNames
          /\ IF schPre.exists
             THEN {schAdds[i] : i \in DOMAIN schAdds} = DesiredNames \ FieldsOf(schPre)
             ELSE schAdds = <<>> /\ storeClass = CreatedClass

\* C12 witness: a collection with a field of its own, a differently typed
\* checksum and several required fields missing has been reconciled.
C12_Witness ==
    /\ schPc = "done"
    /\ schPre.exists
    /\ "legacy" \in FieldsOf(schPre)
    /\ "checksum" \in FieldsOf(schPre)
    /\ schPre.properties["checksum"] = "string"
    /\ Len(schAdds) >= 2
    /\ embPc = "poll"

\* The upsert of a sidecar has replaced what the index held under the
\* sidecar's id by one object with the sidecar's fields, and has left the
\* objects under every other id as they were.
ReplacedById(data) ==
    /\ {o \in BagToSet(index') : o.id = data.id} = {IndexObject(data.id, SidecarProps(data))}
    /\ EntriesOf(index', data.id) = 1
    /\ \A o \in BagToSet(index) \cup BagToSet(index') :
           o.id # data.id =>
               /\ o \in BagToSet(index) /\ o \in BagToSet(index')
               /\ index'[o] = index[o]

\* C13: the sidecar id is the primary key of the index.  Every ingestion,
\* by the queue consumer or by the reindex operation, upserts under exactly
\* the id stored in the sidecar and leaves one entry under that id, carrying
\* the text just ingested; nothing else changes the index, so after any
\* sequence of ingestions the index holds one entry per id with the text of
\* the latest ingestion of that id.
C13_IdIsPrimaryKey ==
    [][/\ (embPc = "loaded" /\ embPc' = "unlink") => ReplacedById(embData)
       /\ (rxPc = "loaded" /\ rxPc' = "walk") => ReplacedById(rxData)
       /\ index' # index =>
             \/ embPc = "loaded" /\ embPc' = "unlink"
             \/ rxPc = "loaded" /\ rxPc' = "walk"
       /\ IndexOnePerId']_vars

\* C13 witness: a sidecar indexed by the first reindex run was corrected and
\* ingested again; the index holds one entry for its id, with the new text.
C13_Witness ==
    \E o \in BagToSet(index) :
        /\ o.text = "corrected"
        /\ EntriesOf(index, o.id) = 1
        /\ \E q \in BagToSet(rxIndex1) : q.id = o.id /\ q.text # "corrected"
        /\ \E q \in BagToSet(index) : q.id # o.id

\* The extraction stage is not inside process_file.
EtlAtRest == etlPc \in {"poll", "walk", "down"}

(***************************************************************************)
(* The extraction stage alone, no step failing, on inbox files of which    *)
(* two lie in one directory and differ only in their extension.            *)
(***************************************************************************)
PairInputs ==
    { [dir |-> <<"receipts">>, name |-> <<"foo", "PDF">>, bytes |-> "scan-of-receipt"],
      [dir |-> <<"receipts">>, name |-> <<"foo", "txt">>, bytes |-> "plain-note"],
      [dir |-> <<"mail">>,     name |-> <<"foo", "eml">>, bytes |-> "mail-hello"] }

PairNext ==
    \/ \E i \in PairInputs : Drop(i)
    \/ scan_once_begin
    \/ \E d \in InboxDirs : scan_once_walk(d)
    \/ \E n \in etlFiles : scan_once_name(n)
    \/ scan_once_end
    \/ process_file_extract
    \/ process_file_move_rename
    \/ process_file_move_copy
    \/ process_file_move_unlink
    \/ process_file_open_sidecar
    \/ process_file_dump_sidecar
    \/ process_file_copy_open
    \/ process_file_copy_done

PairSpec == Init /\ [][PairNext]_vars

\* The archive sidecars whose archived_path names the archived file k.
SidecarsNaming(k) ==
    {s \in DOMAIN archive :
        /\ archive[s].kind = "json"
        /\ archive[s].doc.archived_path = os_path_join("archive", k[1], k[2])}

\* C16: whenever the extraction stage is not inside process_file, every
\* original file in the archive has the bytes it was dropped with and has
\* exactly one archive sidecar whose archived_path names it.
C16_ArchiveHoldsPairs ==
    EtlAtRest =>
        \A k \in DOMAIN archive :
            archive[k].kind = "raw" =>
                /\ \E i \in dropped : InboxKey(i) = k /\ archive[k].bytes = i.bytes
                /\ Cardinality(SidecarsNaming(k)) = 1

\* A step of the reindex operation.
ReindexStep == rxPc' # rxPc \/ rxFiles' # rxFiles

\* The index holds, under the id of every parsable archive sidecar with
\* text, one entry with that sidecar's text.
ArchiveReplayed ==
    \A k \in ArchiveJsonPaths(archive) :
        (archive[k].kind = "json" /\ archive[k].doc.text # "") =>
            /\ EntriesOf(index, archive[k].doc.id) = 1
            /\ \E o \in BagToSet(index) :
                   o.id = archive[k].doc.id /\ o.text = archive[k].doc.text

\* A reindex run has ended, no embedding or upsert has raised so far, and
\* the archive is as the first run listed it.
CleanRunOver == rxPc = "exit" /\ rxClean /\ archive = rxSnapshot

\* C14: reindex_archive lists every *.json under the archive root and takes
\* each of them, a failure on one being caught and the walk going on; it
\* never changes the archive; a run in which no embedding or upsert raised
\* leaves an entry for every parsable sidecar with text; and a further such run over
\* the unchanged archive leaves the index exactly as the first one did.
C14_ReindexIdempotent ==
    [][/\ ReindexStep => archive' = archive
       /\ (rxPc = "ready" /\ rxPc' = "walk") => rxFiles' = ArchiveJsonPaths(archive)
       /\ (ReindexStep /\ rxPc = "except") => (rxPc' = "walk" /\ rxFiles' = rxFiles)
       /\ (rxPc # "exit" /\ rxPc' = "exit") => (rxPc = "walk" /\ rxFiles = {})
       /\ CleanRunOver' => ArchiveReplayed'
       /\ (CleanRunOver' /\ rxRuns' >= 2) => index' = rxIndex1']_vars

\* C14 witness: a second run has ended over an unchanged archive that holds
\* a complete pair and a sidecar that does not parse.
C14_Witness ==
    /\ CleanRunOver
    /\ rxRuns = 2
    /\ index # EmptyBag
    /\ \E k \in ArchiveJsonPaths(archive) : archive[k].kind = "partial"

\* C15: a document left in a partial pipeline state (archived, with no
\* sidecar or with no staging copy, the extraction stage having been
\* interrupted) is recovered by the reindex operation: after one run of
\* reindex_archive in which nothing raised, every archived document with
\* text has its index entry.
C15_ReindexRecoversPartial ==
    (CleanRunOver /\ rxRuns = 1 /\ EtlAtRest) =>
        \A i \in dropped :
            (ArchiveKey(i.dir, i.name) \in DOMAIN archive /\ TextOfBytes(i.bytes) # "") =>
                EntriesOf(index, SidecarOf(i).id) = 1

\* ingest_json is entered for a staging file.
IngestEntered == embPc = "staging" /\ embPc' \in {"loaded", "unlink", "except"}

\* C17: when ingest_json parses a sidecar whose text is empty it returns
\* normally (the caller goes on to the unlink, no exception is pending)
\* with the index unchanged; embed_text is reached only with non-empty
\* text, and the index changes only for a sidecar with non-empty text.
C17_EmptyTextSkipped ==
    [][/\ (/\ IngestEntered
           /\ embCur' \in DOMAIN staging
           /\ staging[embCur'].kind = "json"
           /\ staging[embCur'].doc.text = "")
          => (embPc' = "unlink" /\ embExc' = "none" /\ index' = index)
       /\ embPc' = "loaded" => embData'.text # ""
       /\ index' # index => embData.text # ""]_vars

\* C17 witness: ingest_json has returned for a parsed sidecar with empty
\* text and the file is about to be unlinked.
C17_Witness ==
    /\ embPc = "unlink"
    /\ embCur \in DOMAIN staging
    /\ embData # NoDoc
    /\ embData.text = ""

\* C18: embed_text does not fail when the embedding service is unreachable
\* or answers with an error: no ingestion of a sidecar with non-empty text
\* ends in the handler of scan_staging because of embed_text.
C18_EmbeddingAlwaysAvailable ==
    ~(embPc = "except" /\ embExc = "embed" /\ embData.text # "")

\* The index holds the content of the sidecar doc under its id.
ContentUpserted(doc) ==
    \E o \in BagToSet(index) : o.id = normalize_uuid(doc.id) /\ o.text = doc.text

\* C19: with the extraction stage and the queue consumer interleaved on the
\* staging directory, a complete staging sidecar with non-empty text is
\* removed or overwritten only when its own content is in the index.
C19_StagingConsumedExactly ==
    [][\A n \in DOMAIN staging :
          (/\ staging[n].kind = "json"
           /\ staging[n].doc.text # ""
           /\ (n \notin DOMAIN staging' \/ staging'[n] # staging[n]))
          => ContentUpserted(staging[n].doc)]_vars

\* C20: whenever the extraction stage is not inside process_file, no OCR
\* output file of a call that returned or raised exists (only a call that
\* was terminated may have left one behind).
C20_OcrOutputTemporary ==
    ~InProcessFile(etlPc) => \A t \in tmp : t.why = "killed"

(***************************************************************************)
(* The whole sync stage: the polling loop (queue consumer, then the scan   *)
(* of the live tree) and the reindex operation, on an archived and staged  *)
(* document and a live tree that the user edits.                           *)
(***************************************************************************)
NotesPath == os_path_join("active", <<>>, <<"notes", "md">>)

SyncInit ==
    /\ inbox = EmptyDir
    /\ archive = SeedArchive
    /\ staging = SeedStaging
    /\ dropped = {SeedInput}
    /\ crashes = 0
    /\ redo = NoId
    /\ etlPc = "down"
    /\ etlDirs = {}
    /\ etlFiles = {}
    /\ etlDir = <<>>
    /\ etlCur = NoName
    /\ etlSidecar = NoDoc
    /\ etlExc = "none"
    /\ index = EmptyBag
    /\ embPc = "start"
    /\ embFiles = {}
    /\ embCur = NoName
    /\ embData = NoDoc
    /\ embUpserted = NoId
    /\ embExc = "none"
    /\ active = (LogoPath :> [mtime |-> 1, text |-> "draft"]) @@
                (NotesPath :> [mtime |-> 1, text |-> "draft"])
    /\ state = EmptyDir
    /\ actFiles = {}
    /\ actCur = NoPath
    /\ actMtime = 0
    /\ actText = ""
    /\ lastObs = EmptyDir
    /\ scanUpserts = EmptyDir
    /\ tmp = {}
    /\ storeClass = CreatedClass
    /\ schPc = "idle"
    /\ schExisting = {}
    /\ schI = 1
    /\ schAdds = <<>>
    /\ schQuery = "none"
    /\ schPre = NoClass
    /\ rxPc = "idle"
    /\ rxFiles = {}
    /\ rxCur = NoName
    /\ rxData = NoDoc
    /\ rxRuns = 0
    /\ rxClean = TRUE
    /\ rxSnapshot = EmptyDir
    /\ rxIndex1 = EmptyBag

SyncNext ==
    \/ \E text \in Texts : WriteActive(NotesPath, text)
    \/ main_loop_start
    \/ scan_staging_begin
    \/ \E n \in embFiles : ingest_json_load(n)
    \/ ingest_json_upsert
    \/ \E step \in {"embed", "upsert"} : ingest_json_raise(step)
    \/ process_staging_unlink
    \/ scan_staging_except
    \/ scan_active_begin
    \/ \E p \in actFiles : scan_active_visit(p)
    \/ scan_active_read
    \/ scan_active_upsert
    \/ scan_active_upsert_raise
    \/ scan_active_except
    \/ \E step \in {"read", "embed"} : scan_active_raise(step)
    \/ scan_active_end
    \/ emb_restart
    \/ reindex_main
    \/ reindex_archive_begin
    \/ \E k \in rxFiles : reindex_ingest_load(k)
    \/ reindex_ingest_upsert
    \/ \E step \in {"embed", "upsert"} : reindex_ingest_raise(step)
    \/ reindex_archive_except
    \/ reindex_archive_end

SyncSpec == SyncInit /\ [][SyncNext]_vars

\* A step taken by the sync stage (polling loop or reindex operation), as
\* opposed to a step of the user on the live tree.
SyncStageStep == <<embVars, state, actFiles, rxVars>>' # <<embVars, state, actFiles, rxVars>>

\* C21: a step of scan_staging, scan_active_files or reindex_archive keeps
\* every id that is in the index, leaves the archive and the live tree as
\* they are, and on staging does nothing but remove files.
C21_SyncStageFrame ==
    [][SyncStageStep =>
          /\ IndexIds(index) \subseteq IndexIds(index')
          /\ archive' = archive
          /\ active' = active
          /\ inbox' = inbox
          /\ DOMAIN staging' \subseteq DOMAIN staging
          /\ \A n \in DOMAIN staging' : staging'[n] = staging[n]]_vars

\* C21 witness: the consumer has removed the staged sidecar, the live
\* document is indexed beside the archived one, a reindex run has ended,
\* and archive and live tree are still in place.
C21_Witness ==
    /\ staging = EmptyDir
    /\ rxPc = "exit"
    /\ embPc = "poll"
    /\ Cardinality(IndexIds(index)) = 2
    /\ archive = SeedArchive
    /\ NotesPath \in DOMAIN active /\ LogoPath \in DOMAIN active

====
